---- MODULE Spec2Model ----
(***************************************************************************)
(* Model of emissary's SSU2 pending-session support code:                  *)
(*   emissary-core/src/transport/ssu2/session/pending/mod.rs               *)
(*     PacketRetransmitter (the retransmission automaton) and              *)
(*     PendingSsu2SessionStatus (the terminal outcomes of a pending        *)
(*     session).                                                           *)
(*   emissary-core/src/primitives/destination.rs                           *)
(*     Destination: construction, parsing and serialization of the         *)
(*     identity structure.                                                 *)
(* Time is in milliseconds.  A timer is an R::Timer of the runtime: it is  *)
(* pending until its deadline, then reports ready to the next poll.        *)
(***************************************************************************)
EXTENDS Integers, Sequences, FiniteSets, TLC

VARIABLES
    rt,        \* the PacketRetransmitter (pkt, timeouts, timer), or Dropped / NoRetransmitter
    now,       \* the runtime's clock, ms since the automaton / session was constructed
    events,    \* log of the PacketRetransmitterEvents returned by poll, with their time
    armed,     \* log of the durations handed to R::timer, in order
    info,      \* the arguments the automaton was constructed with: preset, pkt, timeout
    late,      \* total time by which polls came after the timer they answer had elapsed
    postPolls, \* number of polls made of an automaton whose Timeout was already returned
    sess,      \* the pending session that owns rt, or NoSession
    sent,      \* log of the packets the pending session handed to the socket
    dst        \* the Destination under construction or parsing: bytes and result

vars == <<rt, now, events, armed, info, late, postPolls, sess, sent, dst>>

---------------------------------------------------------------------------
(* Bounds of the model *)

\* polls allowed after the automaton has returned Timeout
MaxPostPolls == 2
\* total lateness allowed to accumulate, in units of PollDelay
MaxLate == 2
\* how long a late poll comes after the timer elapsed, ms
PollDelay == 250
\* how long the clock is followed after a session has resolved, ms
Horizon == 15000

\* packets given at construction (byte strings)
Packets == {<<>>, <<7>>, <<7, 9>>}
\* timeouts given to inactive()
InactiveTimeouts == {0, 5000, 15000}

PresetNames ==
    {"inactive", "token_request", "session_request", "session_created",
     "session_confirmed"}

---------------------------------------------------------------------------
(* Helpers *)

RECURSIVE Sum(_)
Sum(s) == IF s = <<>> THEN 0 ELSE Head(s) + Sum(Tail(s))

RECURSIVE CountType(_, _)
CountType(log, ty) ==
    IF log = <<>> THEN 0
    ELSE (IF Head(log).type = ty THEN 1 ELSE 0) + CountType(Tail(log), ty)

IsPrefix(s, t) == Len(s) <= Len(t) /\ \A i \in 1..Len(s) : s[i] = t[i]

---------------------------------------------------------------------------
(* PacketRetransmitterEvent *)

Pending == [type |-> "Pending", pkt |-> <<>>]
Retransmit(pkt) == [type |-> "Retransmit", pkt |-> pkt]
Timeout == [type |-> "Timeout", pkt |-> <<>>]

(* The state of a retransmitter that has been dropped, and of none at all. *)
Dropped == [state |-> "dropped"]
NoRetransmitter == [state |-> "none"]
Alive(r) == r # Dropped /\ r # NoRetransmitter

---------------------------------------------------------------------------
(* R::Timer *)

\* R::timer(duration), created at time t
Timer(duration, t, id) ==
    [id |-> id, duration |-> duration, deadline |-> t + duration,
     completed |-> FALSE, waker |-> FALSE]

\* timer.poll_unpin(cx) at time t.  A pending timer registers the waker; an
\* elapsed timer returns Ready once.  What a timer that already returned
\* Ready does when polled again is left to the runtime: `again` is its answer.
timer_poll(tm, t, again) ==
    IF tm.completed
    THEN [ready |-> again, timer |-> tm]
    ELSE IF t >= tm.deadline
    THEN [ready |-> TRUE, timer |-> [tm EXCEPT !.completed = TRUE]]
    ELSE [ready |-> FALSE, timer |-> [tm EXCEPT !.waker = TRUE]]

---------------------------------------------------------------------------
(* PacketRetransmitter: the constructors *)

PacketRetransmitter(pkt, timeouts, first, t, id) ==
    [pkt |-> pkt, timeouts |-> timeouts, timer |-> Timer(first, t, id)]

\* faulty variant of inactive: the timeout is queued as a delay too
inactive_queued(timeout, t, id) ==
    PacketRetransmitter(<<>>, <<timeout>>, timeout, t, id)

inactive(timeout, t, id) == PacketRetransmitter(<<>>, <<>>, timeout, t, id)

token_request(pkt, t, id) == PacketRetransmitter(pkt, <<6000, 6000>>, 3000, t, id)

\* faulty variant of session_request: the last delay is missing
session_request_short(pkt, t, id) ==
    PacketRetransmitter(pkt, <<2500, 5000>>, 1250, t, id)

session_request(pkt, t, id) ==
    PacketRetransmitter(pkt, <<2500, 5000, 6250>>, 1250, t, id)

\* faulty variant of session_created: the last delay is missing
session_created_short(pkt, t, id) ==
    PacketRetransmitter(pkt, <<2000, 4000>>, 1000, t, id)

session_created(pkt, t, id) ==
    PacketRetransmitter(pkt, <<2000, 4000, 5000>>, 1000, t, id)

\* faulty variant of session_confirmed: the last delay is missing
session_confirmed_short(pkt, t, id) ==
    PacketRetransmitter(pkt, <<2500, 5000>>, 1250, t, id)

session_confirmed(pkt, t, id) ==
    PacketRetransmitter(pkt, <<2500, 5000, 6250>>, 1250, t, id)

Construct(name, pkt, timeout, t, id) ==
    CASE name = "inactive" -> inactive(timeout, t, id)
      [] name = "token_request" -> token_request(pkt, t, id)
      [] name = "session_request" -> session_request(pkt, t, id)
      [] name = "session_created" -> session_created(pkt, t, id)
      [] name = "session_confirmed" -> session_confirmed(pkt, t, id)

---------------------------------------------------------------------------
(* PacketRetransmitter::poll *)

\* faulty variant of ready_timer: the ready! is forgotten, poll goes on at once
ready_timer_forgotten(r, t, again) == [ready |-> TRUE, timer |-> r.timer]

\* futures::ready!(self.timer.poll_unpin(cx))
ready_timer(r, t, again) == timer_poll(r.timer, t, again)

\* faulty variant of pop_front: pop_back
pop_back(q) ==
    IF q = <<>> THEN [some |-> FALSE, value |-> 0, rest |-> <<>>]
    ELSE [some |-> TRUE, value |-> q[Len(q)], rest |-> SubSeq(q, 1, Len(q) - 1)]

\* self.timeouts.pop_front()
pop_front(q) ==
    IF q = <<>> THEN [some |-> FALSE, value |-> 0, rest |-> <<>>]
    ELSE [some |-> TRUE, value |-> Head(q), rest |-> Tail(q)]

\* faulty variant of rearm: the delay is popped and the timer is not re-armed
rearm_forgotten(r, timeout, rest, t, again) ==
    [pkt |-> r.pkt, timeouts |-> rest, timer |-> ready_timer(r, t, again).timer]

\* faulty variant of rearm: the new timer is not polled
rearm_unpolled(r, timeout, rest, t, again) ==
    [pkt |-> r.pkt, timeouts |-> rest, timer |-> Timer(timeout, t, r.timer.id + 1)]

\* self.timer = R::timer(timeout); let _ = self.timer.poll_unpin(cx);
rearm(r, timeout, rest, t, again) ==
    [pkt |-> r.pkt, timeouts |-> rest,
     timer |-> timer_poll(Timer(timeout, t, r.timer.id + 1), t, again).timer]

\* faulty variant of retransmit_event: an empty packet, not a clone of self.pkt
retransmit_event_empty(r) == Retransmit(<<>>)

\* Poll::Ready(PacketRetransmitterEvent::Retransmit { pkt: self.pkt.clone() })
retransmit_event(r) == Retransmit(r.pkt)

\* faulty variant of on_exhausted: the last timer is started over
on_exhausted_rearm(r, tm) ==
    [r |-> [r EXCEPT !.timer = Timer(tm.duration, tm.deadline, tm.id + 1)],
     ev |-> Timeout]

\* faulty variant of on_exhausted: Pending is returned, not Timeout
on_exhausted_pending(r, tm) == [r |-> [r EXCEPT !.timer = tm], ev |-> Pending]

\* None => Poll::Ready(PacketRetransmitterEvent::Timeout)
on_exhausted(r, tm) == [r |-> [r EXCEPT !.timer = tm], ev |-> Timeout]

\* faulty variant of on_delay: the delay stays at the front of the queue
on_delay_kept(r, p, t, again) ==
    [r |-> rearm(r, p.value, r.timeouts, t, again), ev |-> retransmit_event(r)]

\* Some(timeout) => { ... }
on_delay(r, p, t, again) ==
    [r |-> rearm(r, p.value, p.rest, t, again), ev |-> retransmit_event(r)]

\* The whole of poll: the automaton after the call and the event returned
\* (Pending when the future is not ready).
poll(r, t, again) ==
    LET tp == ready_timer(r, t, again)
        p == pop_front(r.timeouts)
    IN  IF ~tp.ready
        THEN [r |-> [r EXCEPT !.timer = tp.timer], ev |-> Pending]
        ELSE IF p.some
        THEN on_delay(r, p, t, again)
        ELSE on_exhausted(r, tp.timer)

\* The log of armed durations after a poll: a timer with a new id was created
\* by R::timer, and the assignment to self.timer dropped the one it replaces.
ArmedAfter(log, old, new) ==
    IF new.timer.id # old.timer.id THEN Append(log, new.timer.duration) ELSE log

---------------------------------------------------------------------------
(* The automaton on its own: constructed by one of the presets, polled by  *)
(* its owner, dropped at any time.                                         *)

NoSession == [role |-> "none"]

NoDestination == [phase |-> "none"]

Stamp(ev, t) == [type |-> ev.type, pkt |-> ev.pkt, at |-> t]

\* the automaton has returned Timeout
TimedOut == CountType(events, "Timeout") > 0

Init ==
    /\ \E name \in PresetNames, p \in Packets, d \in InactiveTimeouts :
          /\ rt = Construct(name, p, d, 0, 1)
          /\ info = [preset |-> name, pkt |-> p, timeout |-> d]
          /\ armed = <<rt.timer.duration>>
    /\ now = 0
    /\ events = <<>>
    /\ late = 0
    /\ postPolls = 0
    /\ sess = NoSession
    /\ sent = <<>>
    /\ dst = NoDestination

\* Time passes until the armed timer's deadline: the timer fires.
TimerFire ==
    /\ Alive(rt)
    /\ ~rt.timer.completed
    /\ now < rt.timer.deadline
    /\ now' = rt.timer.deadline
    /\ UNCHANGED <<rt, events, armed, info, late, postPolls, sess, sent, dst>>

\* The owner is slow: time passes after the timer elapsed and before the poll.
PollLate ==
    /\ Alive(rt)
    /\ ~rt.timer.completed
    /\ now >= rt.timer.deadline
    /\ late < MaxLate * PollDelay
    /\ now' = now + PollDelay
    /\ late' = late + PollDelay
    /\ UNCHANGED <<rt, events, armed, info, postPolls, sess, sent, dst>>

\* The owner polls the automaton.
Poll ==
    /\ sess = NoSession
    /\ Alive(rt)
    /\ TimedOut => postPolls < MaxPostPolls
    /\ \E again \in BOOLEAN :
          LET res == poll(rt, now, again)
          IN  /\ rt' = res.r
              /\ events' = IF res.ev = Pending THEN events
                           ELSE Append(events, Stamp(res.ev, now))
              /\ armed' = ArmedAfter(armed, rt, res.r)
    /\ postPolls' = IF TimedOut THEN postPolls + 1 ELSE postPolls
    /\ UNCHANGED <<now, info, late, sess, sent, dst>>

\* The owner drops the automaton, and its timer with it.
Drop ==
    /\ sess = NoSession
    /\ Alive(rt)
    /\ rt' = Dropped
    /\ UNCHANGED <<now, events, armed, info, late, postPolls, sess, sent, dst>>

Next == TimerFire \/ PollLate \/ Poll \/ Drop

Spec == Init /\ [][Next]_vars

\* The automaton that is never dropped, under a runtime whose timers fire
\* and an executor that polls the owner it has woken: a timer that has not
\* elapsed does elapse, and an automaton whose poll would do something is
\* polled.
NextLive == TimerFire \/ PollLate \/ Poll

SpecLive == Init /\ [][NextLive]_vars /\ WF_vars(TimerFire) /\ WF_vars(Poll)

\* The owner that never polls on its own: the executor polls the task once
\* when it is spawned, and then only when a waker the task has registered
\* wakes it, which the timer does when it elapses.
NotYetPolled ==
    Alive(rt) /\ events = <<>> /\ ~rt.timer.waker /\ ~rt.timer.completed

Woken ==
    Alive(rt) /\ rt.timer.waker /\ ~rt.timer.completed /\ now >= rt.timer.deadline

PollFirst == NotYetPolled /\ Poll

PollWoken == Woken /\ Poll

NextWoken == TimerFire \/ PollLate \/ PollFirst \/ PollWoken

SpecWoken ==
    /\ Init
    /\ [][NextWoken]_vars
    /\ WF_vars(TimerFire)
    /\ WF_vars(PollFirst)
    /\ WF_vars(PollWoken)

---------------------------------------------------------------------------
(* PendingSsu2SessionStatus: the terminal outcomes of a pending session    *)

\* faulty variant of PendingSsu2SessionStatus: no Timeout variant
PendingSsu2SessionStatus_NoTimeout ==
    {"NewInboundSession", "NewOutboundSession", "SessionTerminated", "SocketClosed"}

PendingSsu2SessionStatus ==
    {"NewInboundSession", "NewOutboundSession", "SessionTerminated", "Timeout",
     "SocketClosed"}

---------------------------------------------------------------------------
(* The pending sessions, inbound and outbound (pending/inbound.rs and      *)
(* pending/outbound.rs).  A session owns at most one retransmitter, rt;    *)
(* the socket feeds it datagrams, polls it and closes it.                  *)

\* the handshake packets a session sends (byte strings)
PktRequest == <<1>>
PktCreated == <<2>>
PktConfirmed == <<3>>
PktRetry == <<4>>

\* instants at which a handshake may start
StartTimes == {0, 100}

\* the datagrams the socket may feed a session; valid tells whether the
\* handshake cryptography accepts the message
Messages ==
    [kind : {"initiation", "response", "confirmation", "data"}, valid : BOOLEAN]

Msg(kind, valid) == [kind |-> kind, valid |-> valid]

\* what made the session take its last step
OnStart == [kind |-> "start", valid |-> TRUE]
OnTimer == [kind |-> "timer", valid |-> TRUE]
OnClose == [kind |-> "close", valid |-> TRUE]

Retired(st) == st.state = "Retired"

\* the status handed to the socket
Status(st, status, on, t) ==
    [status |-> status, role |-> st.role, started |-> st.started, at |-> t, on |-> on]

\* faulty variant of Resolve: the outcome is reported and the session goes on
Resolve_NotRetired(st, r, status, on, t) ==
    [sess |-> [st EXCEPT !.outcomes = Append(@, Status(st, status, on, t)),
                         !.last = on],
     rt |-> r]

\* The session resolves: its one outcome is produced, the session is
\* retired and its automaton is dropped with it.
Resolve(st, r, status, on, t) ==
    [sess |-> [st EXCEPT !.state = "Retired",
                         !.outcomes = Append(@, Status(st, status, on, t)),
                         !.last = on],
     rt |-> Dropped]

\* started.elapsed().as_millis(): whole milliseconds from started to t
Elapsed(started, t) == t - started

\* faulty variant of duration: the subtraction is the wrong way round
duration_reversed(o, t) == o.started - t

\* PendingSsu2SessionStatus::duration, called at time t
duration(o, t) ==
    CASE o.status = "NewInboundSession" -> Elapsed(o.started, t)
      [] o.status = "NewOutboundSession" -> Elapsed(o.started, t)
      [] o.status = "SessionTerminated" -> Elapsed(o.started, t)
      [] o.status = "Timeout" -> Elapsed(o.started, t)
      [] o.status = "SocketClosed" -> Elapsed(o.started, t)

\* a packet handed to the socket
Sent(pkt, t, retransmit) == [pkt |-> pkt, at |-> t, retransmit |-> retransmit]

RECURSIVE Retransmissions(_, _)
Retransmissions(log, pkt) ==
    IF log = <<>> THEN 0
    ELSE (IF Head(log).pkt = pkt /\ Head(log).retransmit THEN 1 ELSE 0)
         + Retransmissions(Tail(log), pkt)

\* the time a packet was first sent
RECURSIVE FirstSentAt(_, _)
FirstSentAt(log, pkt) ==
    IF log = <<>> THEN -1
    ELSE IF Head(log).pkt = pkt THEN Head(log).at ELSE FirstSentAt(Tail(log), pkt)

WasSent(log, pkt) == \E i \in 1..Len(log) : log[i].pkt = pkt

\* Construction.  An outbound session sends the request at once and arms a
\* session_request automaton; an inbound session awaits the initiation.
InitSession ==
    /\ \E t \in StartTimes, role \in {"inbound", "outbound"} :
          /\ now = t
          /\ sess = [role |-> role,
                     state |-> IF role = "outbound" THEN "RequestSent"
                               ELSE "AwaitingInitiation",
                     started |-> t, outcomes |-> <<>>, last |-> OnStart]
          /\ rt = IF role = "outbound" THEN session_request(PktRequest, t, 1)
                  ELSE NoRetransmitter
          /\ armed = IF role = "outbound" THEN <<rt.timer.duration>> ELSE <<>>
          /\ sent = IF role = "outbound" THEN <<Sent(PktRequest, t, FALSE)>> ELSE <<>>
          /\ info = [preset |-> IF role = "outbound" THEN "session_request" ELSE "none",
                     pkt |-> IF role = "outbound" THEN PktRequest ELSE <<>>,
                     timeout |-> 0]
    /\ events = <<>>
    /\ late = 0
    /\ postPolls = 0
    /\ dst = NoDestination

\* The session sends pkt, drops the automaton it held and arms a new one.
Arm(st, state, on, name, pkt, timeout) ==
    /\ sess' = [st EXCEPT !.state = state, !.last = on]
    /\ rt' = Construct(name, pkt, timeout, now, Len(armed) + 1)
    /\ armed' = Append(armed, rt'.timer.duration)
    /\ sent' = Append(sent, Sent(pkt, now, FALSE))
    /\ info' = [preset |-> name, pkt |-> pkt, timeout |-> timeout]
    /\ UNCHANGED <<now, events, late, postPolls, dst>>

\* The session resolves to status.
Finish(st, status, on) ==
    LET res == Resolve(st, rt, status, on, now)
    IN  /\ sess' = res.sess
        /\ rt' = res.rt
        /\ UNCHANGED <<now, events, armed, info, late, postPolls, sent, dst>>

\* The message is not for the state the session is in: it is ignored.
Ignore(st, on) ==
    /\ sess' = [st EXCEPT !.last = on]
    /\ UNCHANGED <<rt, now, events, armed, info, late, postPolls, sent, dst>>

\* faulty variant of RecvOutbound: a duplicate response is answered again
RecvOutbound_AnswersDuplicate ==
    /\ sess # NoSession
    /\ sess.role = "outbound"
    /\ ~Retired(sess)
    /\ \E m \in Messages :
          CASE sess.state \in {"RequestSent", "ConfirmationSent"}
                    /\ m.kind = "response" ->
                 IF m.valid
                 THEN Arm(sess, "ConfirmationSent", m, "session_confirmed",
                          PktConfirmed, 0)
                 ELSE Finish(sess, "SessionTerminated", m)
            [] sess.state = "ConfirmationSent" /\ m.kind = "data" ->
                 IF m.valid
                 THEN Finish(sess, "NewOutboundSession", m)
                 ELSE Finish(sess, "SessionTerminated", m)
            [] OTHER -> Ignore(sess, m)

\* The socket feeds an outbound session a datagram.
RecvOutbound ==
    /\ sess # NoSession
    /\ sess.role = "outbound"
    /\ ~Retired(sess)
    /\ \E m \in Messages :
          CASE sess.state = "RequestSent" /\ m.kind = "response" ->
                 IF m.valid
                 THEN Arm(sess, "ConfirmationSent", m, "session_confirmed",
                          PktConfirmed, 0)
                 ELSE Finish(sess, "SessionTerminated", m)
            [] sess.state = "ConfirmationSent" /\ m.kind = "data" ->
                 IF m.valid
                 THEN Finish(sess, "NewOutboundSession", m)
                 ELSE Finish(sess, "SessionTerminated", m)
            [] OTHER -> Ignore(sess, m)

\* The socket feeds an inbound session a datagram.  A valid initiation is
\* answered with a Retry challenge (when the policy asks for one) or with
\* the SessionCreated message.
RecvInbound ==
    /\ sess # NoSession
    /\ sess.role = "inbound"
    /\ ~Retired(sess)
    /\ \E m \in Messages, retry \in BOOLEAN, d \in InactiveTimeouts :
          CASE sess.state = "AwaitingInitiation" /\ m.kind = "initiation" ->
                 IF ~m.valid THEN Finish(sess, "SessionTerminated", m)
                 ELSE IF retry
                 THEN Arm(sess, "RetryChallengeSent", m, "inactive", PktRetry, d)
                 ELSE Arm(sess, "AwaitingConfirmation", m, "session_created",
                          PktCreated, 0)
            [] sess.state = "RetryChallengeSent" /\ m.kind = "initiation" ->
                 IF ~m.valid THEN Finish(sess, "SessionTerminated", m)
                 ELSE Arm(sess, "AwaitingConfirmation", m, "session_created",
                          PktCreated, 0)
            [] sess.state = "AwaitingConfirmation" /\ m.kind = "confirmation" ->
                 IF m.valid
                 THEN Finish(sess, "NewInboundSession", m)
                 ELSE Finish(sess, "SessionTerminated", m)
            [] OTHER -> Ignore(sess, m)

\* The executor polls the session, which polls its automaton: a Retransmit
\* is handed to the socket, a Timeout resolves the session.
PollSession ==
    /\ sess # NoSession
    /\ ~Retired(sess)
    /\ Alive(rt)
    /\ TimedOut => postPolls < MaxPostPolls
    /\ postPolls' = IF TimedOut THEN postPolls + 1 ELSE postPolls
    /\ \E again \in BOOLEAN :
          LET res == poll(rt, now, again)
          IN  /\ events' = IF res.ev = Pending THEN events
                           ELSE Append(events, Stamp(res.ev, now))
              /\ armed' = ArmedAfter(armed, rt, res.r)
              /\ sent' = IF res.ev.type = "Retransmit"
                         THEN Append(sent, Sent(res.ev.pkt, now, TRUE))
                         ELSE sent
              /\ IF res.ev.type = "Timeout"
                 THEN LET end == Resolve(sess, res.r, "Timeout", OnTimer, now)
                      IN  sess' = end.sess /\ rt' = end.rt
                 ELSE /\ rt' = res.r
                      /\ sess' = IF res.ev = Pending THEN sess
                                 ELSE [sess EXCEPT !.last = OnTimer]
    /\ UNCHANGED <<now, info, late, dst>>

\* The socket is closed while the session is pending.
SocketClose ==
    /\ sess # NoSession
    /\ ~Retired(sess)
    /\ Finish(sess, "SocketClosed", OnClose)

\* Time goes on after the session has resolved: the deadline of any timer
\* it had armed passes.
TimePassesAfter ==
    /\ sess # NoSession
    /\ Retired(sess)
    /\ now < sess.outcomes[1].at + Horizon
    /\ now' = sess.outcomes[1].at + Horizon
    /\ UNCHANGED <<rt, events, armed, info, late, postPolls, sess, sent, dst>>

NextSession ==
    \/ TimerFire
    \/ PollLate
    \/ PollSession
    \/ RecvOutbound
    \/ RecvInbound
    \/ SocketClose
    \/ TimePassesAfter

SpecSession == InitSession /\ [][NextSession]_vars

---------------------------------------------------------------------------
(* Destination (primitives/destination.rs): 384 bytes of padding and keys  *)
(* followed by a certificate: kind (u8), length (u16, big endian) and, for *)
(* a key certificate, the signing-key kind and the private-key kind (u16   *)
(* each).  Byte strings are sequences of 0..255; Rust's 0-based half-open  *)
(* ranges s[a..b] are written Index(s, a, b).                              *)

NULL_CERTIFICATE == 0

KEY_CERTIFICATE == 5

KEY_CERTIFICATE_LEN == 4

PADDING_LEN == 352

KEY_KIND_EDDSA_SHA512_ED25519 == 7

KEY_KIND_X25519 == 4

DESTINATION_WITH_KEY_CERT_LEN == 391

DESTINATION_WITH_NULL_CERT_LEN == 387

DESTINATION_MINIMUM_LEN == 387

DESTINATION_LEN_NO_CERTIFICATE == 384

\* usize is 64 bits wide; the model's integers have 32 bits and 2^30 stands
\* for 2^64: a difference that wraps exceeds the length of every input
USIZE == 2 ^ 30

None == [tag |-> "None"]

Some(v) == [tag |-> "Some", val |-> v]

\* the outcomes of parse_frame: Err(..), a panic, or Ok((rest, destination))
Err == [tag |-> "Err"]

Panic == [tag |-> "Panic"]

Ok(rest, destination) == [tag |-> "Ok", rest |-> rest, destination |-> destination]

\* s[a..b]
InRange(s, a, b) == a <= b /\ b <= Len(s)

Index(s, a, b) == SubSeq(s, a + 1, b)

\* BufMut::put_u16: two bytes, big endian
put_u16(v) == <<v \div 256, v % 256>>

\* nom's complete parsers: the value and the rest, or an error when the
\* input is too short
Fail == [ok |-> FALSE]

take(n, s) ==
    IF Len(s) < n THEN Fail
    ELSE [ok |-> TRUE, val |-> SubSeq(s, 1, n), rest |-> SubSeq(s, n + 1, Len(s))]

be_u8(s) ==
    IF Len(s) < 1 THEN Fail
    ELSE [ok |-> TRUE, val |-> s[1], rest |-> SubSeq(s, 2, Len(s))]

be_u16(s) ==
    IF Len(s) < 2 THEN Fail
    ELSE [ok |-> TRUE, val |-> s[1] * 256 + s[2], rest |-> SubSeq(s, 3, Len(s))]

\* a - b on usize: with overflow checks (debug builds) an underflow panics,
\* without them (release builds) it wraps
usize_sub(a, b, checks) ==
    IF a >= b THEN Some(a - b)
    ELSE IF checks THEN None
    ELSE Some((a - b) % USIZE)

\* Sha256 and base64_encode, idealised: equal outputs only for equal inputs
Sha256(bytes) == [sha256 |-> bytes]

base64_encode(value) == [base64 |-> value]

\* DestinationId::from
DestinationId(value) == base64_encode(value)

\* The key kinds a key certificate can declare, with their key sizes
\* (SigningKeyKind::try_from and PrivateKeyKind::try_from).
SigningKeyKind(v) ==
    CASE v = 0 -> Some([kind |-> "DsaSha1", size |-> 128])
      [] v = 1 -> Some([kind |-> "EcDsaSha256P256", size |-> 64])
      [] v = KEY_KIND_EDDSA_SHA512_ED25519 ->
                  Some([kind |-> "EdDsaSha512Ed25519", size |-> 32])
      [] OTHER -> None

PrivateKeyKind(v) ==
    CASE v = 0 -> Some([kind |-> "ElGamal", size |-> 256])
      [] v = 1 -> Some([kind |-> "P256", size |-> 64])
      [] v = KEY_KIND_X25519 -> Some([kind |-> "X25519", size |-> 32])
      [] OTHER -> None

\* The crypto library validates the encoding of a public key (the point is
\* on the curve).  The encodings it rejects are taken to be those that
\* start with 0xff: all that matters here is that acceptance is a function
\* of the bytes.
Accepted(bytes) == bytes # <<>> /\ bytes[1] # 255

SigningPublicKey(variant, bytes) == [variant |-> variant, bytes |-> bytes]

\* SigningPublicKey::from_bytes, ::p256 and ::dsa_sha1
from_bytes(bytes) ==
    IF Len(bytes) = 32 /\ Accepted(bytes)
    THEN Some(SigningPublicKey("Ed25519", bytes)) ELSE None

p256(bytes) ==
    IF Len(bytes) = 64 /\ Accepted(bytes)
    THEN Some(SigningPublicKey("P256", bytes)) ELSE None

dsa_sha1(bytes) ==
    IF Len(bytes) = 128 /\ Accepted(bytes)
    THEN Some(SigningPublicKey("DsaSha1", bytes)) ELSE None

\* SigningPublicKey::as_ref
as_ref(key) == key.bytes

\* the Destination struct
Destination(identity_hash, private_key_len, serialized, signing_key_len, verifying_key) ==
    [destination_id |-> DestinationId(identity_hash),
     identity_hash |-> identity_hash,
     private_key_len |-> private_key_len,
     serialized |-> serialized,
     signing_key_len |-> signing_key_len,
     verifying_key |-> verifying_key]

\* Destination::new, padding being the bytes the runtime's rng yields
new(verifying_key, padding) ==
    LET serialized == padding \o as_ref(verifying_key) \o <<KEY_CERTIFICATE>>
                        \o put_u16(KEY_CERTIFICATE_LEN)
                        \o put_u16(KEY_KIND_EDDSA_SHA512_ED25519)
                        \o put_u16(KEY_KIND_X25519)
    IN  Destination(Sha256(serialized), 32, serialized, 32, verifying_key)

\* the tuple parse_frame's match arms yield, bound in this order to
\* (rest, verifying_key, signing_key_len, private_key_len, destination_len)
MatchArm(rest, verifying_key, signing_key_len, private_key_len, destination_len) ==
    [tag |-> "Ok", rest |-> rest, verifying_key |-> verifying_key,
     signing_key_len |-> signing_key_len, private_key_len |-> private_key_len,
     destination_len |-> destination_len]

\* faulty variant of null_certificate: the destination is taken to have the
\* length of one with a key certificate
null_certificate_long(initial_bytes, rest) ==
    IF ~InRange(initial_bytes, 384 - 128, 384) THEN Panic
    ELSE LET key == dsa_sha1(Index(initial_bytes, 384 - 128, 384))
         IN  IF key = None THEN Err
             ELSE MatchArm(rest, key.val, 256, 128, DESTINATION_WITH_KEY_CERT_LEN)

\* the arm (NULL_CERTIFICATE, _)
null_certificate(initial_bytes, rest) ==
    IF ~InRange(initial_bytes, 384 - 128, 384) THEN Panic
    ELSE LET key == dsa_sha1(Index(initial_bytes, 384 - 128, 384))
         IN  IF key = None THEN Err
             ELSE MatchArm(rest, key.val, 256, 128, DESTINATION_WITH_NULL_CERT_LEN)

\* the verifying key and its size, for the signing-key kind declared
verifying_key_of(initial_bytes, signing_key_kind) ==
    LET kind == SigningKeyKind(signing_key_kind)
    IN  CASE kind = None -> Err
          [] kind # None /\ kind.val.kind = "DsaSha1" -> Err
          [] kind # None /\ kind.val.kind = "EcDsaSha256P256" ->
               IF ~InRange(initial_bytes, 384 - 64, 384) THEN Panic
               ELSE LET key == p256(Index(initial_bytes, 384 - 64, 384))
                    IN  IF key = None THEN Err
                        ELSE [tag |-> "Ok", key |-> key.val, size |-> kind.val.size]
          [] kind # None /\ kind.val.kind = "EdDsaSha512Ed25519" ->
               IF ~InRange(initial_bytes, 384 - 32, 384) THEN Panic
               ELSE LET public_key == Index(initial_bytes, 384 - 32, 384)
                        key == from_bytes(public_key)
                    IN  IF Len(public_key) # 32 THEN Panic
                        ELSE IF key = None THEN Err
                        ELSE [tag |-> "Ok", key |-> key.val, size |-> kind.val.size]

\* faulty variant of key_certificate: the rest returned is the one before the
\* private-key kind was read
key_certificate_rest(initial_bytes, rest) ==
    LET sk == be_u16(rest)
    IN  IF ~sk.ok THEN Err
        ELSE LET pk == be_u16(sk.rest)
             IN  IF ~pk.ok THEN Err
                 ELSE LET vk == verifying_key_of(initial_bytes, sk.val)
                          public_key_len == PrivateKeyKind(pk.val)
                      IN  IF vk.tag # "Ok" THEN vk
                          ELSE IF public_key_len = None THEN Err
                          ELSE MatchArm(sk.rest, vk.key, vk.size,
                                        public_key_len.val.size,
                                        DESTINATION_WITH_KEY_CERT_LEN)

\* the arm (KEY_CERTIFICATE, KEY_CERTIFICATE_LEN)
key_certificate(initial_bytes, rest) ==
    LET sk == be_u16(rest)
    IN  IF ~sk.ok THEN Err
        ELSE LET pk == be_u16(sk.rest)
             IN  IF ~pk.ok THEN Err
                 ELSE LET vk == verifying_key_of(initial_bytes, sk.val)
                          public_key_len == PrivateKeyKind(pk.val)
                      IN  IF vk.tag # "Ok" THEN vk
                          ELSE IF public_key_len = None THEN Err
                          ELSE MatchArm(pk.rest, vk.key, vk.size,
                                    public_key_len.val.size,
                                    DESTINATION_WITH_KEY_CERT_LEN)

\* faulty variant of certificate: the length a key certificate declares is
\* not looked at
certificate_any_len(initial_bytes, certificate_kind, certificate_len, rest) ==
    CASE certificate_kind = NULL_CERTIFICATE ->
           null_certificate(initial_bytes, rest)
      [] certificate_kind = KEY_CERTIFICATE ->
           key_certificate(initial_bytes, rest)
      [] OTHER -> Err

\* match (certificate_kind, certificate_len)
certificate(initial_bytes, certificate_kind, certificate_len, rest) ==
    CASE certificate_kind = NULL_CERTIFICATE ->
           null_certificate(initial_bytes, rest)
      [] certificate_kind = KEY_CERTIFICATE
            /\ certificate_len = KEY_CERTIFICATE_LEN ->
           key_certificate(initial_bytes, rest)
      [] OTHER -> Err

\* faulty variant of too_short: every length is let through
too_short_never(input) == FALSE

\* the length check parse_frame starts with
too_short(input) == Len(input) < DESTINATION_MINIMUM_LEN

\* faulty variant of parsed: the whole input is kept as the serialized form
parsed_whole(input, c) ==
    Ok(c.rest,
       Destination(Sha256(input), c.private_key_len, input,
                   c.signing_key_len, c.verifying_key))

\* the end of parse_frame: the destination is the first destination_len
\* bytes of the input
parsed(input, c) ==
    IF ~InRange(input, 0, c.destination_len) THEN Panic
    ELSE LET serialized == Index(input, 0, c.destination_len)
         IN  Ok(c.rest,
                Destination(Sha256(serialized), c.private_key_len, serialized,
                            c.signing_key_len, c.verifying_key))

\* Destination::parse_frame; checks tells whether the build has overflow
\* checks
parse_frame(input, checks) ==
    IF too_short(input) THEN Err
    ELSE LET n == usize_sub(Len(input), DESTINATION_LEN_NO_CERTIFICATE, checks)
         IN  IF n = None THEN Panic
             ELSE LET initial == take(DESTINATION_LEN_NO_CERTIFICATE, input)
                  IN  IF ~initial.ok THEN Err
                      ELSE LET rest == take(n.val, initial.rest)
                           IN  IF ~rest.ok THEN Err
                               ELSE LET kind == be_u8(rest.val)
                                    IN  IF ~kind.ok THEN Err
                                        ELSE LET len == be_u16(kind.rest)
                                             IN  IF ~len.ok THEN Err
                                                 ELSE LET c == certificate(initial.val, kind.val,
                                                                           len.val, len.rest)
                                                      IN  IF c.tag # "Ok" THEN c
                                                          ELSE parsed(input, c)

\* Destination::parse
parse(input, checks) ==
    LET res == parse_frame(input, checks)
    IN  CASE res.tag = "Ok" -> Some(res.destination)
          [] res.tag = "Err" -> None
          [] OTHER -> Panic

serialize(d) == d.serialized

\* Destination::serialized_len
serialized_len(d) ==
    LET certificate_payload_len ==
            IF d.verifying_key.variant = "DsaSha1" THEN 0 ELSE 4
    IN  32 + 320 + 32 + 1 + 2 + certificate_payload_len

private_key_length(d) == d.private_key_len

signing_key_length(d) == d.signing_key_len

---------------------------------------------------------------------------
(* Destinations are built by new and serialized, byte strings arrive from  *)
(* the network and are parsed.                                             *)

\* n bytes that differ from place to place
Bytes(fill, n) == [i \in 1..n |-> (fill + i - 1) % 256]

\* the first bytes the 384 bytes of an input start with; with 159, 191 and
\* 255 the Ed25519, P256 and DSA-SHA1 key is one the crypto library rejects
Fills == {0, 159, 191, 255}

CertificateKinds == {NULL_CERTIFICATE, KEY_CERTIFICATE, 3}

CertificateLens == {0, KEY_CERTIFICATE_LEN, 5}

SigningKinds == {0, 1, 2, KEY_KIND_EDDSA_SHA512_ED25519}

PrivateKinds == {0, 1, KEY_KIND_X25519, 9}

\* most bytes that follow the certificate payload in an input
MaxTrailing == 2

\* the lengths inputs are cut to
Cuts == {10, 383, 384, 385, 386, 387, 388, 389, 390, 391, 400}

Truncate(s, n) == IF n < Len(s) THEN SubSeq(s, 1, n) ELSE s

Wire(fill, kind, len, signing, private, trailing) ==
    Bytes(fill, DESTINATION_LEN_NO_CERTIFICATE) \o <<kind>> \o put_u16(len)
        \o put_u16(signing) \o put_u16(private) \o Bytes(1, trailing)

Inputs ==
    {Truncate(Wire(f, k, l, s, p, n), c) :
        f \in Fills, k \in CertificateKinds, l \in CertificateLens,
        s \in SigningKinds, p \in PrivateKinds, n \in 0..MaxTrailing, c \in Cuts}

\* the verifying keys destinations are built from
Keys ==
    {from_bytes(Bytes(10, 32)).val, from_bytes(Bytes(0, 32)).val,
     p256(Bytes(20, 64)).val, p256(Bytes(224, 64)).val,
     dsa_sha1(Bytes(30, 128)).val}

DestState(phase, checks, origin, input, result) ==
    [phase |-> phase, checks |-> checks, origin |-> origin, input |-> input,
     result |-> result]

InitDest ==
    /\ \E checks \in BOOLEAN : dst = DestState("idle", checks, None, <<>>, None)
    /\ rt = NoRetransmitter
    /\ now = 0
    /\ events = <<>>
    /\ armed = <<>>
    /\ info = [preset |-> "none", pkt |-> <<>>, timeout |-> 0]
    /\ late = 0
    /\ postPolls = 0
    /\ sess = NoSession
    /\ sent = <<>>

\* Destination::new(verifying_key)
New ==
    /\ dst.phase = "idle"
    /\ \E key \in Keys, fill \in Fills :
          dst' = DestState("built", dst.checks,
                           Some(new(key, Bytes(fill, PADDING_LEN))), <<>>, None)
    /\ UNCHANGED <<rt, now, events, armed, info, late, postPolls, sess, sent>>

\* destination.serialize(), the bytes being sent
Serialize ==
    /\ dst.phase = "built"
    /\ dst' = DestState("wire", dst.checks, dst.origin,
                        serialize(dst.origin.val), None)
    /\ UNCHANGED <<rt, now, events, armed, info, late, postPolls, sess, sent>>

\* bytes arrive from the network
Receive ==
    /\ dst.phase = "idle"
    /\ \E input \in Inputs :
          dst' = DestState("wire", dst.checks, None, input, None)
    /\ UNCHANGED <<rt, now, events, armed, info, late, postPolls, sess, sent>>

\* Destination::parse_frame(input)
Parse ==
    /\ dst.phase = "wire"
    /\ dst' = DestState("done", dst.checks, dst.origin, dst.input,
                        parse_frame(dst.input, dst.checks))
    /\ UNCHANGED <<rt, now, events, armed, info, late, postPolls, sess, sent>>

NextDest ==
    \/ New
    \/ Serialize
    \/ Receive
    \/ Parse

SpecDest == InitDest /\ [][NextDest]_vars

\* parse_frame has been applied to dst.input
Done == dst.phase = "done"

Accepts == Done /\ dst.result.tag = "Ok"

Rejects == Done /\ dst.result.tag = "Err"

Parsed == dst.result.destination

\* the certificate fields of the input, where it is long enough to have them
Kind == dst.input[DESTINATION_LEN_NO_CERTIFICATE + 1]

CertLen == be_u16(Index(dst.input, 385, 387)).val

SigningKind == be_u16(Index(dst.input, 387, 389)).val

PrivateKind == be_u16(Index(dst.input, 389, 391)).val

---------------------------------------------------------------------------
(* Properties of the automaton on its own (specification Spec)             *)

\* the presets' tables as the documentation states them: queued delays,
\* every duration armed in order, and their total
QueuedDelays(name) ==
    CASE name = "inactive" -> 0
      [] name = "token_request" -> 2
      [] name \in {"session_request", "session_created", "session_confirmed"} -> 3

Table(name, timeout) ==
    CASE name = "inactive" -> <<timeout>>
      [] name = "token_request" -> <<3000, 6000, 6000>>
      [] name = "session_request" -> <<1250, 2500, 5000, 6250>>
      [] name = "session_created" -> <<1000, 2000, 4000, 5000>>
      [] name = "session_confirmed" -> <<1250, 2500, 5000, 6250>>

TimeoutAfter(name, timeout) ==
    CASE name = "inactive" -> timeout
      [] name = "session_created" -> 12000
      [] name \in {"token_request", "session_request", "session_confirmed"} -> 15000

\* the events without their time stamps
Emitted == [i \in 1..Len(events) |-> [type |-> events[i].type, pkt |-> events[i].pkt]]

\* N Retransmit events carrying pkt, then one Timeout
FullRun(n, pkt) == [i \in 1..(n + 1) |-> IF i <= n THEN Retransmit(pkt) ELSE Timeout]

\* every poll so far answered a timer that had not yet returned Ready
PolledOnFiring == postPolls = 0

\* every timer armed so far has fired and has been polled
AllFiringsPolled == Alive(rt) /\ rt.timer.completed

\* C1: for each preset, an automaton polled after every timer firing and
\* never dropped emits exactly N Retransmit events (N the preset's number of
\* queued delays), each carrying the packet given at construction, and then
\* exactly one Timeout: what it has emitted so far is a prefix of that run,
\* and the whole of it once the last timer has fired and been polled.
C1_RetransmitsThenTimeout ==
    PolledOnFiring =>
        LET full == FullRun(QueuedDelays(info.preset), info.pkt)
        IN  /\ IsPrefix(Emitted, full)
            /\ AllFiringsPolled => Emitted = full

C1_Witness ==
    /\ info.preset = "session_created"
    /\ info.pkt = <<7, 9>>
    /\ PolledOnFiring
    /\ AllFiringsPolled
    /\ Len(events) = 4
    /\ events[3] = [type |-> "Retransmit", pkt |-> <<7, 9>>, at |-> 7000]
    /\ events[4].type = "Timeout"

\* C2 as stated: once Timeout has been emitted, a later poll emits no
\* further event: the Timeout is the last event and the only Timeout.
C2_NoEventAfterTimeout ==
    TimedOut =>
        /\ CountType(events, "Timeout") = 1
        /\ events[Len(events)].type = "Timeout"

\* C2 as amended: once Timeout has been emitted, a later poll emits no
\* Retransmit, arms no timer and leaves the packet, the empty schedule and
\* the fired timer as they are; it emits at most one further Timeout (when
\* the fired timer reports ready again).
C2_TerminalButForTimeout ==
    TimedOut =>
        LET n == QueuedDelays(info.preset)
        IN  /\ CountType(events, "Retransmit") = n
            /\ \A i \in 1..Len(events) : i > n => events[i].type = "Timeout"
            /\ Len(events) <= n + 1 + postPolls
            /\ Len(armed) = n + 1
            /\ Alive(rt) =>
                  /\ rt.timeouts = <<>>
                  /\ rt.timer.completed
                  /\ rt.timer.id = n + 1
                  /\ rt.timer.deadline <= events[n + 1].at
                  /\ rt.pkt = (IF info.preset = "inactive" THEN <<>> ELSE info.pkt)

C2_Witness ==
    /\ info.preset = "token_request"
    /\ postPolls = 2
    /\ Len(events) = 4
    /\ events[3].type = "Timeout"
    /\ events[4].type = "Timeout"
    /\ Alive(rt)

\* C3: the durations armed over the automaton's life are, in order, the
\* preset's table (a prefix of it until the Timeout, the whole of it then),
\* so the delays are consumed front first, none skipped; the Timeout comes
\* at the table's total (15 s, 15 s, 12 s, 15 s) plus the time by which the
\* polls were late, so at the total itself with prompt polling.
C3_ScheduleIsTable ==
    LET table == Table(info.preset, info.timeout)
        n == QueuedDelays(info.preset)
    IN  /\ IsPrefix(armed, table)
        /\ Len(armed) = Len(events) + 1 \/ TimedOut
        /\ TimedOut =>
              /\ armed = table
              /\ events[n + 1].at = TimeoutAfter(info.preset, info.timeout) + late
              /\ late = 0 => events[n + 1].at = Sum(table)

C3_Witness ==
    /\ info.preset = "session_created"
    /\ late = 0
    /\ armed = <<1000, 2000, 4000, 5000>>
    /\ Len(events) = 4
    /\ events[4] = [type |-> "Timeout", pkt |-> <<>>, at |-> 12000]

TimerNotFired == Alive(rt) /\ ~rt.timer.completed /\ now < rt.timer.deadline

\* C5: the automaton advances only when its timer fires: a step taken while
\* the current timer has not fired (a poll, which returns Pending, among
\* them) emits no event, arms no timer and leaves packet and schedule as
\* they are; and nothing has been emitted before the first timer fired,
\* whether or not the automaton has been dropped by then.
C5_AdvancesOnlyOnFiring ==
    /\ [][TimerNotFired =>
            /\ events' = events
            /\ armed' = armed
            /\ Alive(rt') =>
                  /\ rt'.pkt = rt.pkt
                  /\ rt'.timeouts = rt.timeouts
                  /\ rt'.timer.deadline = rt.timer.deadline]_vars
    /\ [](now < armed[1] => events = <<>>)

C5_Witness ==
    /\ info.preset = "session_request"
    /\ TimerNotFired
    /\ rt.timer.waker
    /\ rt.timer.id = 1
    /\ rt.timeouts = <<2500, 5000, 6250>>
    /\ events = <<>>

\* C6: the automaton holds one timer at a time, and popping a delay and
\* arming the timer with it are one step: as long as the Timeout has not
\* been emitted the timer held is an armed one (it has not yet returned
\* Ready), it is the timer armed last, the number of timers armed is one
\* more than the number of delays popped, and each Retransmit was emitted
\* in the step that armed the next timer.
C6_PopAndRearmTogether ==
    Alive(rt) =>
        LET popped == QueuedDelays(info.preset) - Len(rt.timeouts)
        IN  /\ Len(armed) = popped + 1
            /\ rt.timer.id = Len(armed)
            /\ rt.timer.duration = armed[Len(armed)]
            /\ CountType(events, "Retransmit") = popped
            /\ ~TimedOut =>
                  /\ ~rt.timer.completed
                  /\ popped > 0 =>
                        rt.timer.deadline = events[popped].at + rt.timer.duration

C6_Witness ==
    /\ info.preset = "session_confirmed"
    /\ Alive(rt)
    /\ rt.timeouts = <<6250>>
    /\ armed = <<1250, 2500, 5000>>
    /\ CountType(events, "Retransmit") = 2
    /\ ~rt.timer.completed
    /\ rt.timer.waker

---------------------------------------------------------------------------
(* Properties of the pending sessions (specification SpecSession)          *)

Outcome == sess.outcomes[1]
Resolved == sess.outcomes # <<>>

\* C7: a pending session, inbound or outbound, produces exactly one
\* terminal status over its life: never more than one, exactly one once it
\* is retired and none before; the status is one of the five variants of
\* PendingSsu2SessionStatus (NewInboundSession only for an inbound session,
\* NewOutboundSession only for an outbound one); and a retired session
\* takes no further step: it and its automaton stay as they are, nothing is
\* emitted and nothing is sent.
C7_ExactlyOneOutcome ==
    /\ [](/\ Len(sess.outcomes) <= 1
          /\ Retired(sess) <=> Len(sess.outcomes) = 1
          /\ \A i \in 1..Len(sess.outcomes) :
                /\ sess.outcomes[i].status \in PendingSsu2SessionStatus
                /\ sess.outcomes[i].status = "NewInboundSession" => sess.role = "inbound"
                /\ sess.outcomes[i].status = "NewOutboundSession" => sess.role = "outbound")
    /\ [][Retired(sess) =>
            /\ sess' = sess
            /\ rt' = rt
            /\ events' = events
            /\ armed' = armed
            /\ sent' = sent]_vars

C7_Witness ==
    /\ sess.role = "inbound"
    /\ Retired(sess)
    /\ Len(sess.outcomes) = 1
    /\ Outcome.status = "Timeout"
    /\ CountType(events, "Retransmit") = 3

\* C8: once a session's outcome has been decided (and the session dropped),
\* no Retransmit event of its automaton is emitted and no packet is handed
\* to the socket: the automaton is dropped with the session, and every
\* Retransmit emitted and every packet sent dates from before the outcome.
C8_NoRetransmitAfterOutcome ==
    /\ [][Resolved =>
            /\ CountType(events', "Retransmit") = CountType(events, "Retransmit")
            /\ sent' = sent]_vars
    /\ [](Resolved =>
            /\ ~Alive(rt)
            /\ \A i \in 1..Len(events) : events[i].at <= Outcome.at
            /\ \A i \in 1..Len(sent) : sent[i].at <= Outcome.at)

C8_Witness ==
    /\ Resolved
    /\ Outcome.status = "NewOutboundSession"
    /\ Retransmissions(sent, PktConfirmed) = 2
    /\ rt = Dropped
    /\ now > Outcome.at

\* C9: an outbound session is not reported as NewOutboundSession for having
\* sent SessionConfirmed: while it waits in ConfirmationSent it has no
\* outcome and its session_confirmed automaton is armed; NewOutboundSession
\* is produced only on receiving a valid Data packet after SessionConfirmed
\* was sent; and when the automaton's schedule is exhausted first, after
\* three retransmissions of SessionConfirmed (15 s after it was sent, with
\* prompt polling), the outcome is Timeout.
C9_OutboundNeedsFirstData ==
    sess.role = "outbound" =>
        /\ sess.state = "ConfirmationSent" =>
              /\ ~Resolved
              /\ Alive(rt) /\ ~rt.timer.completed
              /\ rt.pkt = PktConfirmed
              /\ Retransmissions(sent, PktConfirmed) + Len(rt.timeouts) = 3
        /\ (Resolved /\ Outcome.status = "NewOutboundSession") =>
              /\ Outcome.on = Msg("data", TRUE)
              /\ WasSent(sent, PktConfirmed)
              /\ Outcome.at >= FirstSentAt(sent, PktConfirmed)
        /\ (Resolved /\ Outcome.on = OnTimer) =>
              /\ Outcome.status = "Timeout"
              /\ WasSent(sent, PktConfirmed) =>
                    /\ Retransmissions(sent, PktConfirmed) = 3
                    /\ Outcome.at >= FirstSentAt(sent, PktConfirmed) + 15000
                    /\ late = 0 => Outcome.at = FirstSentAt(sent, PktConfirmed) + 15000

C9_Witness ==
    /\ sess.role = "outbound"
    /\ Resolved
    /\ Outcome.status = "Timeout"
    /\ WasSent(sent, PktConfirmed)
    /\ Retransmissions(sent, PktConfirmed) = 3
    /\ sess.last = OnTimer

\* C10: an outbound session that has sent its request and has had no
\* response when the session_request schedule (1.25 s, 2.5 s, 5 s, 6.25 s)
\* is exhausted resolves to Timeout, having retransmitted the request
\* exactly three times (at 1.25 s, 3.75 s and 8.75 s, and timing out at 15 s,
\* with prompt polling); until then it waits with the automaton armed.
C10_RequestTimesOut ==
    sess.role = "outbound" =>
        /\ sess.state = "RequestSent" =>
              /\ ~Resolved
              /\ Alive(rt) /\ ~rt.timer.completed
              /\ rt.pkt = PktRequest
              /\ Retransmissions(sent, PktRequest) + Len(rt.timeouts) = 3
        /\ (Resolved /\ Outcome.on = OnTimer /\ ~WasSent(sent, PktConfirmed)) =>
              /\ Outcome.status = "Timeout"
              /\ Retransmissions(sent, PktRequest) = 3
              /\ Len(sent) = 4
              /\ \A i \in 1..4 : sent[i].pkt = PktRequest
              /\ armed = <<1250, 2500, 5000, 6250>>
              /\ Outcome.at - sess.started >= 15000
              /\ late = 0 =>
                    /\ Outcome.at - sess.started = 15000
                    /\ sent[2].at - sess.started = 1250
                    /\ sent[3].at - sess.started = 3750
                    /\ sent[4].at - sess.started = 8750

C10_Witness ==
    /\ sess.role = "outbound"
    /\ Resolved
    /\ Outcome.status = "Timeout"
    /\ ~WasSent(sent, PktConfirmed)
    /\ Retransmissions(sent, PktRequest) = 3
    /\ late = 0
    /\ Outcome.at = sess.started + 15000

\* C11: closing the socket while a handshake is pending resolves the
\* session to SocketClosed, whatever its role and state (the closure can be
\* forced in every state in which the session is pending), and duration()
\* of the outcome, of every variant, is the number of milliseconds elapsed
\* since the handshake started, which is never negative.
C11_SocketClosedAndDuration ==
    /\ [][(~Retired(sess) /\ sess'.last = OnClose /\ sess' # sess) =>
            /\ Retired(sess')
            /\ sess'.outcomes = <<Status(sess, "SocketClosed", OnClose, now)>>
            /\ ~Alive(rt')]_vars
    /\ [](/\ ~Retired(sess) => ENABLED SocketClose
          /\ (Resolved /\ Outcome.on = OnClose) => Outcome.status = "SocketClosed"
          /\ Resolved =>
                /\ Outcome.started = sess.started
                /\ duration(Outcome, now) >= 0
                /\ duration(Outcome, now) = now - sess.started
                /\ duration(Outcome, Outcome.at) >= 0)

C11_Witness ==
    /\ sess.role = "inbound"
    /\ Resolved
    /\ Outcome.status = "SocketClosed"
    /\ WasSent(sent, PktCreated)
    /\ Retransmissions(sent, PktCreated) = 2
    /\ sess.started = 100
    /\ duration(Outcome, now) = 3000 + Horizon

\* a copy of a message the session has processed, fed after the session
\* has advanced past every state that accepts it
Duplicate(st, m) ==
    \/ st.role = "outbound" /\ st.state = "ConfirmationSent" /\ m.kind = "response"
    \/ st.role = "inbound" /\ st.state = "AwaitingConfirmation" /\ m.kind = "initiation"

\* C12: feeding a state machine a duplicate of a handshake message it has
\* already processed, once it has advanced past the state accepting that
\* message, is a no-op: the step that takes the duplicate in produces no
\* outcome, leaves the state as it is, sends nothing, and arms or re-arms no
\* automaton (packet, remaining schedule and timer are unchanged).
C12_DuplicateIsNoOp ==
    [][\A m \in Messages :
          (Duplicate(sess, m) /\ sess'.last = m) =>
              /\ sess'.state = sess.state
              /\ sess'.outcomes = <<>>
              /\ sent' = sent
              /\ armed' = armed
              /\ events' = events
              /\ info' = info
              /\ Alive(rt')
              /\ rt'.pkt = rt.pkt
              /\ rt'.timeouts = rt.timeouts
              /\ rt'.timer.id = rt.timer.id
              /\ rt'.timer.deadline = rt.timer.deadline
              /\ rt'.timer.completed = rt.timer.completed]_vars

C12_Witness ==
    /\ sess.role = "outbound"
    /\ sess.state = "ConfirmationSent"
    /\ sess.last = Msg("response", TRUE)
    /\ Retransmissions(sent, PktConfirmed) = 1
    /\ armed = <<1250, 1250, 2500>>
    /\ rt.timeouts = <<5000, 6250>>
    /\ ~Resolved

\* the inbound session has answered a valid initiation and waits for the
\* confirmation, its session_created schedule not yet exhausted
AwaitsConfirmation(st) ==
    st.role = "inbound" /\ st.state = "AwaitingConfirmation" /\ ~Retired(st)

\* C13: an inbound handshake that was fed a valid initiation and is then
\* fed a valid confirmation before its session_created schedule is exhausted
\* resolves to NewInboundSession; fed a confirmation that fails validation
\* instead, it resolves to SessionTerminated, never to NewInboundSession or
\* Timeout.  While it waits, the schedule is armed and a confirmation can
\* be fed; NewInboundSession has no other cause.
C13_ConfirmationDecides ==
    /\ [][\A v \in BOOLEAN :
            (AwaitsConfirmation(sess) /\ sess'.last = Msg("confirmation", v)) =>
                /\ sess'.outcomes =
                     <<Status(sess, IF v THEN "NewInboundSession"
                                    ELSE "SessionTerminated",
                              Msg("confirmation", v), now)>>
                /\ ~Alive(rt')
                /\ events' = events /\ sent' = sent /\ armed' = armed]_vars
    /\ [](/\ AwaitsConfirmation(sess) =>
                /\ ENABLED RecvInbound
                /\ WasSent(sent, PktCreated)
                /\ Alive(rt) /\ ~rt.timer.completed
                /\ rt.pkt = PktCreated
                /\ Retransmissions(sent, PktCreated) + Len(rt.timeouts) = 3
                /\ ~TimedOut
          /\ (Resolved /\ Outcome.on = Msg("confirmation", TRUE)
                       /\ WasSent(sent, PktCreated)) =>
                /\ Outcome.status = "NewInboundSession"
                /\ Outcome.status \in PendingSsu2SessionStatus
                /\ ~TimedOut
          /\ (Resolved /\ Outcome.on = Msg("confirmation", FALSE)
                       /\ WasSent(sent, PktCreated)) =>
                /\ Outcome.status = "SessionTerminated"
                /\ Outcome.status \in PendingSsu2SessionStatus
                /\ Len(sess.outcomes) = 1
                /\ ~TimedOut
          /\ (Resolved /\ Outcome.status = "NewInboundSession") =>
                /\ sess.role = "inbound"
                /\ Outcome.on = Msg("confirmation", TRUE)
                /\ WasSent(sent, PktCreated))

C13_Witness ==
    /\ sess.role = "inbound"
    /\ Resolved
    /\ Outcome.status = "SessionTerminated"
    /\ Outcome.on = Msg("confirmation", FALSE)
    /\ WasSent(sent, PktRetry)
    /\ Retransmissions(sent, PktCreated) = 3
    /\ Outcome.at - FirstSentAt(sent, PktCreated) = 7000

---------------------------------------------------------------------------
(* Properties of Destination (specification SpecDest)                      *)

\* the destination new built, whose serialized form was parsed
Origin == dst.origin.val

RoundTrip == Done /\ dst.origin # None

\* C14: for every Destination built by Destination::new from a verifying
\* key, parsing its serialized form succeeds and yields a destination with
\* the same destination id and the same verifying key bytes.
C14_RoundTrip ==
    RoundTrip =>
        /\ Accepts
        /\ parse(serialize(Origin), dst.checks) = Some(Parsed)
        /\ Parsed.destination_id = Origin.destination_id
        /\ as_ref(Parsed.verifying_key) = as_ref(Origin.verifying_key)

\* what does hold: the round trip of a destination built from an Ed25519 key
C14_RoundTripEd25519 ==
    (RoundTrip /\ Origin.verifying_key.variant = "Ed25519") =>
        /\ Accepts
        /\ Parsed = Origin
        /\ Len(serialize(Origin)) = 391

\* a destination built from a P256 key: the key's second half is read as
\* the certificate, here as a null certificate, and parsing yields another
\* destination with a DSA-SHA1 key
C14_Witness ==
    /\ RoundTrip
    /\ Origin.verifying_key.variant = "P256"
    /\ Len(serialize(Origin)) = 423
    /\ Accepts
    /\ Parsed.verifying_key.variant = "DsaSha1"
    /\ Parsed.destination_id # Origin.destination_id

\* C15: Destination::parse and Destination::parse_frame fail (None, Err) for
\* every input shorter than 387 bytes, whatever its contents.
C15_ShortInputFails ==
    (Done /\ Len(dst.input) < 387) =>
        /\ Rejects
        /\ parse(dst.input, dst.checks) = None

C15_Witness ==
    /\ Rejects
    /\ Len(dst.input) = 386
    /\ Kind = NULL_CERTIFICATE
    /\ Accepted(Index(dst.input, 256, 384))
    /\ ~dst.checks

\* C16: for every input parse accepts, serialize() of the parsed destination
\* returns exactly the bytes that were parsed: the first 391 bytes of the
\* input for a key certificate, the first 387 for a null certificate.
C16_SerializeIsInputPrefix ==
    Accepts =>
        /\ Kind \in {NULL_CERTIFICATE, KEY_CERTIFICATE}
        /\ Kind = KEY_CERTIFICATE =>
              /\ Len(dst.input) >= 391
              /\ serialize(Parsed) = SubSeq(dst.input, 1, 391)
        /\ Kind = NULL_CERTIFICATE =>
              serialize(Parsed) = SubSeq(dst.input, 1, 387)
        /\ parse(dst.input, dst.checks) = Some(Parsed)

C16_Witness ==
    /\ Accepts
    /\ dst.origin = None
    /\ Kind = NULL_CERTIFICATE
    /\ CertLen = 5
    /\ Len(dst.input) = 393
    /\ Len(serialize(Parsed)) = 387

\* C17: parse_frame never panics: for every byte string of every length,
\* key-certificate inputs of 387 to 390 bytes with a truncated payload
\* included, it returns Ok or Err; it never indexes past the end of the
\* input (which would panic).
C17_NeverPanics ==
    Done =>
        /\ dst.result.tag \in {"Ok", "Err"}
        /\ parse(dst.input, dst.checks) # Panic
        /\ Accepts => Len(serialize(Parsed)) <= Len(dst.input)
        /\ (Len(dst.input) \in 387..390 /\ Kind = KEY_CERTIFICATE) => Rejects

C17_Witness ==
    /\ Rejects
    /\ Len(dst.input) = 390
    /\ Kind = KEY_CERTIFICATE
    /\ CertLen = KEY_CERTIFICATE_LEN
    /\ SigningKind = KEY_KIND_EDDSA_SHA512_ED25519
    /\ Accepted(Index(dst.input, 352, 384))
    /\ dst.checks

\* C18: a destination parsed from a null certificate reports the legacy
\* key sizes, private_key_length() = 256 (ElGamal) and signing_key_length()
\* = 128 (DSA-SHA1); one parsed from a key certificate reports the sizes its
\* signing-key kind and its private-key kind declare.
C18_KeyLengths ==
    Accepts =>
        /\ Kind = NULL_CERTIFICATE =>
              /\ private_key_length(Parsed) = 256
              /\ signing_key_length(Parsed) = 128
        /\ Kind = KEY_CERTIFICATE =>
              /\ signing_key_length(Parsed) = SigningKeyKind(SigningKind).val.size
              /\ private_key_length(Parsed) = PrivateKeyKind(PrivateKind).val.size

\* what does hold: the key certificate's sizes, and the null certificate's
\* sizes the other way round
C18_KeyLengthsSwapped ==
    Accepts =>
        /\ Kind = NULL_CERTIFICATE =>
              /\ private_key_length(Parsed) = 128
              /\ signing_key_length(Parsed) = 256
        /\ Kind = KEY_CERTIFICATE =>
              /\ signing_key_length(Parsed) = SigningKeyKind(SigningKind).val.size
              /\ private_key_length(Parsed) = PrivateKeyKind(PrivateKind).val.size

C18_Witness ==
    /\ Accepts
    /\ Kind = NULL_CERTIFICATE
    /\ CertLen = 0
    /\ Len(dst.input) = 387
    /\ Parsed.verifying_key.variant = "DsaSha1"
    /\ Len(as_ref(Parsed.verifying_key)) = 128
    /\ signing_key_length(Parsed) = 256
    /\ private_key_length(Parsed) = 128

\* the certificate fields of the input are not recognized
Unrecognized ==
    \/ Kind \notin {0, 5}
    \/ Kind = 5 /\ CertLen # 4
    \/ /\ Kind = 5 /\ CertLen = 4 /\ Len(dst.input) >= 391
       /\ \/ SigningKeyKind(SigningKind) = None
          \/ SigningKeyKind(SigningKind).val.kind = "DsaSha1"
          \/ PrivateKeyKind(PrivateKind) = None

\* C19: parse_frame fails for every input whose certificate fields are not
\* recognized: a certificate kind other than null (0x00) and key (0x05), a
\* key certificate whose declared length is not 4, a key certificate that
\* declares the DSA-SHA1 signing-key kind, an unsupported signing-key kind
\* or an unsupported private-key kind.
C19_UnrecognizedFails ==
    (Done /\ Len(dst.input) >= 387 /\ Unrecognized) =>
        /\ Rejects
        /\ parse(dst.input, dst.checks) = None

C19_Witness ==
    /\ Rejects
    /\ Len(dst.input) = 392
    /\ Kind = KEY_CERTIFICATE
    /\ CertLen = KEY_CERTIFICATE_LEN
    /\ SigningKind = KEY_KIND_EDDSA_SHA512_ED25519
    /\ Accepted(Index(dst.input, 352, 384))
    /\ PrivateKind = 9

---------------------------------------------------------------------------
(* Liveness of the automaton (specification SpecLive)                      *)

\* the number of delays queued at construction
ScheduleLen == Len(Construct(info.preset, info.pkt, info.timeout, 0, 1).timeouts)

\* the number of timers that have fired: every timer armed but the current
\* one, and the current one when it has elapsed
Firings ==
    IF Alive(rt) /\ ~rt.timer.completed /\ now < rt.timer.deadline
    THEN Len(armed) - 1 ELSE Len(armed)

\* C20: an automaton that is never dropped, whose timers eventually fire and
\* which is polled after each firing eventually emits Timeout, after at most
\* schedule length + 1 firings: it never arms more timers than that, never
\* retransmits more often than its schedule is long, and its Timeout
\* answers firing number schedule length + 1.
C20_EventuallyTimeout ==
    /\ <>TimedOut
    /\ [](/\ Alive(rt)
          /\ Len(armed) <= ScheduleLen + 1
          /\ Firings <= ScheduleLen + 1
          /\ CountType(events, "Retransmit") <= ScheduleLen
          /\ CountType(events, "Retransmit") + Len(rt.timeouts) = ScheduleLen
          /\ TimedOut =>
                /\ Firings = ScheduleLen + 1
                /\ events[ScheduleLen + 1].type = "Timeout"
                /\ \A i \in 1..ScheduleLen : events[i].type = "Retransmit")

C20_Witness ==
    /\ TimedOut
    /\ info.preset = "session_created"
    /\ Firings = 4
    /\ CountType(events, "Retransmit") = 3
    /\ late = PollDelay
    /\ now = 12000 + PollDelay

---------------------------------------------------------------------------
(* Wakeups of the automaton's owner (specification SpecWoken)              *)

\* the step is a poll that returns Retransmit
ReturnsRetransmit ==
    /\ Len(events') = Len(events) + 1
    /\ events'[Len(events')].type = "Retransmit"

\* C21: no lost wakeup: whenever poll returns a Retransmit event, the timer
\* it has just armed has been polled with the caller's waker (it is pending
\* and holds the waker), so an owner that polls only when it is woken is
\* woken when the next delay elapses, and the next Retransmit or Timeout is
\* never missed: such an owner gets every Retransmit and, in the end, the
\* Timeout.
C21_NoLostWakeup ==
    /\ [][ReturnsRetransmit =>
            /\ rt'.timer.id = rt.timer.id + 1
            /\ rt'.timer.waker
            /\ ~rt'.timer.completed
            /\ rt'.timer.deadline > now]_vars
    /\ []((Alive(rt) /\ events # <<>> /\ ~rt.timer.completed) => rt.timer.waker)
    /\ []((Alive(rt) /\ ~rt.timer.completed /\ now >= rt.timer.deadline) =>
              (NotYetPolled \/ ENABLED PollWoken))
    /\ \A n \in 0..3 :
          (Len(events) = n /\ ~TimedOut) ~> (Len(events) = n + 1)
    /\ <>TimedOut

C21_Witness ==
    /\ info.preset = "token_request"
    /\ Len(events) = 2
    /\ events[2].type = "Retransmit"
    /\ events[2].at = 9000 + PollDelay
    /\ Woken
    /\ now = 15000 + PollDelay

---------------------------------------------------------------------------
(* The queue of delays (specification Spec)                                *)

Retransmits == CountType(events, "Retransmit")

\* the step is a poll that returns Timeout
ReturnsTimeout ==
    /\ Len(events') = Len(events) + 1
    /\ events'[Len(events')].type = "Timeout"

\* C22: in every reachable state of an automaton, the number of Retransmit
\* events emitted so far plus the number of delays still queued is the
\* number of delays queued at construction; the queue never grows, each
\* Retransmit shrinks it by exactly one (its front), and Timeout is emitted
\* only when it is empty.
C22_QueueAccounting ==
    /\ [](Alive(rt) => Retransmits + Len(rt.timeouts) = ScheduleLen)
    /\ [][(Alive(rt) /\ Alive(rt')) =>
            /\ Len(rt'.timeouts) <= Len(rt.timeouts)
            /\ ReturnsRetransmit =>
                  /\ rt.timeouts # <<>>
                  /\ rt'.timeouts = Tail(rt.timeouts)
            /\ ReturnsTimeout => (rt.timeouts = <<>> /\ rt'.timeouts = <<>>)
            /\ rt'.timeouts # rt.timeouts => ReturnsRetransmit]_vars

C22_Witness ==
    /\ Alive(rt)
    /\ info.preset = "session_confirmed"
    /\ Retransmits = 2
    /\ rt.timeouts = <<6250>>
    /\ ~rt.timer.completed
    /\ now = rt.timer.deadline

---------------------------------------------------------------------------
(* Lengths and remainders of Destination (specification SpecDest)          *)

Built == dst.origin # None

\* C23: for every Destination obtained from Destination::new, with any
\* SigningPublicKey variant, or from a successful parse, serialized_len()
\* equals serialize().len().
C23_SerializedLen ==
    /\ Built => serialized_len(Origin) = Len(serialize(Origin))
    /\ Accepts => serialized_len(Parsed) = Len(serialize(Parsed))

\* what does hold: the lengths agree for parsed destinations and for those
\* built from an Ed25519 key
C23_SerializedLenParsedOrEd25519 ==
    /\ (Built /\ Origin.verifying_key.variant = "Ed25519") =>
          serialized_len(Origin) = Len(serialize(Origin))
    /\ Accepts => serialized_len(Parsed) = Len(serialize(Parsed))

\* a destination built from a DSA-SHA1 key
C23_Witness ==
    /\ Built
    /\ dst.phase = "built"
    /\ Origin.verifying_key.variant = "DsaSha1"
    /\ serialized_len(Origin) = 387
    /\ Len(serialize(Origin)) = 487

\* byte strings that may follow a destination in its frame
Trailers == {<<0>>, <<5, 0>>, Bytes(250, 8)}

\* what of a destination the claims speak of
Facts(d) ==
    <<d.destination_id, d.identity_hash, serialize(d), d.verifying_key,
      private_key_length(d), signing_key_length(d)>>

\* C24: for every input parse_frame accepts, the remainder returned is
\* exactly the input after the destination's own bytes (input[387..] for a
\* null certificate, input[391..] for a key certificate), and appending
\* trailing bytes to the input changes nothing of the parsed destination:
\* id, identity hash, serialized bytes, verifying key and key lengths; the
\* bytes appended end up in the remainder.
C24_Remainder ==
    Accepts =>
        LET own == IF Kind = NULL_CERTIFICATE THEN 387 ELSE 391
        IN  /\ Kind \in {NULL_CERTIFICATE, KEY_CERTIFICATE}
            /\ dst.result.rest = SubSeq(dst.input, own + 1, Len(dst.input))
            /\ serialize(Parsed) \o dst.result.rest = dst.input
            /\ \A extra \in Trailers :
                  LET more == parse_frame(dst.input \o extra, dst.checks)
                  IN  /\ more.tag = "Ok"
                      /\ Facts(more.destination) = Facts(Parsed)
                      /\ more.destination = Parsed
                      /\ more.rest = dst.result.rest \o extra

C24_Witness ==
    /\ Accepts
    /\ dst.origin = None
    /\ Kind = KEY_CERTIFICATE
    /\ Len(dst.input) = 393
    /\ dst.result.rest = <<1, 2>>
    /\ Parsed.verifying_key.variant = "P256"

====
